---------------------------- MODULE Spec2Model ----------------------------
(***************************************************************************)
(* A model of the single-tape binary Turing machine of                     *)
(* manukmelkonyan/turing-machine (src/src/lib.rs, src/src/bit_vec.rs,      *)
(* src/src/main.rs).                                                       *)
(*                                                                         *)
(* The tape is a vector of machine words; cell i is bit (i mod W) of word  *)
(* (i div W), counted from the most significant end.  Words are modelled   *)
(* as integers in 0 .. 2^W - 1 and the bit operations as the arithmetic    *)
(* they perform.  usize::BITS is taken for a 16-bit target so that a word  *)
(* and the wrapped head fit the integers of the model checker.             *)
(***************************************************************************)
EXTENDS Integers, Sequences, FiniteSets, TLC

VARIABLES
    tape,              \* Vec<usize>: word index -> word
    head,              \* usize bit index of the head
    initial_state,     \* Option<ProgramStateId>
    states,            \* keys of HashMap<ProgramStateId, ProgramState>
    transition_table,  \* HashMap<ProgramStateId, HashMap<Symbol, TransitionRule>>
    pc,                \* "idle" | "running" (inside the loop of run) | "panicked"
    current_state,     \* the local current_state of run
    result,            \* what the last call returned
    writes,            \* number of write_to_tape calls made so far
    runs,              \* number of run calls made so far
    overflow_checks    \* build profile: TRUE = arithmetic overflow panics

vars == <<tape, head, initial_state, states, transition_table, pc,
          current_state, result, writes, runs, overflow_checks>>

---------------------------------------------------------------------------
(* Program constants *)

USIZE_BIT_SIZE == 16

DEFAULT_TAPE_SIZE == 2

UsizeModulus == 2 ^ USIZE_BIT_SIZE

(* Bounds of the model *)

MaxWrites == 1

MaxRuns == 2

MaxHeadTravel == 1

---------------------------------------------------------------------------
(* Symbol, Direction, State, TransitionRule *)

Zero == 0

One == 1

Symbol == {Zero, One}

Left == -1

Right == 1

Stay == 0

Direction == {Left, Right, Stay}

None == [tag |-> "None", id |-> 0]

Some(id) == [tag |-> "Some", id |-> id]

ProgramState(id) == [tag |-> "ProgramState", id |-> id]

Termination == [tag |-> "Termination", id |-> 0]

Halt == [tag |-> "Halt", id |-> 0]

TransitionRule(from_state, from_symbol, new_symbol, head_move_dir, to_state) ==
    [from_state |-> from_state, from_symbol |-> from_symbol,
     to_state |-> to_state, new_symbol |-> new_symbol,
     head_move_dir |-> head_move_dir]

---------------------------------------------------------------------------
(* bit_vec.rs.  The shift amount USIZE_BIT_SIZE - index - 1 underflows for *)
(* index >= USIZE_BIT_SIZE: with overflow checks the subtraction panics,   *)
(* without them it wraps and the shift masks its amount to the word width. *)

BitIndexOverflows(index) == USIZE_BIT_SIZE - index - 1 < 0

\* the shift amount counted from the least-significant end of the word
ShiftAmount_LsbFirst(index) == index % USIZE_BIT_SIZE

ShiftAmount(index) == ((USIZE_BIT_SIZE - index - 1) % UsizeModulus) % USIZE_BIT_SIZE

get_bit(cell, index) == (cell \div (2 ^ ShiftAmount(index))) % 2

set_bit(cell, index) ==
    IF (cell \div (2 ^ ShiftAmount(index))) % 2 = 1
    THEN cell
    ELSE cell + 2 ^ ShiftAmount(index)

unset_bit(cell, index) ==
    IF (cell \div (2 ^ ShiftAmount(index))) % 2 = 1
    THEN cell - 2 ^ ShiftAmount(index)
    ELSE cell

---------------------------------------------------------------------------
(* Accessors of TuringMachine *)

tape_len == DEFAULT_TAPE_SIZE * USIZE_BIT_SIZE

WordInBounds(w) == w \in DOMAIN tape

\* self.tape[self.head / USIZE_BIT_SIZE] indexes out of bounds: panic
HeadFaults == ~ WordInBounds(head \div USIZE_BIT_SIZE)

get_head_value == get_bit(tape[head \div USIZE_BIT_SIZE], head % USIZE_BIT_SIZE)

set_head_value(t, h, value) ==
    [t EXCEPT ![h \div USIZE_BIT_SIZE] =
        IF value = Zero THEN unset_bit(@, h % USIZE_BIT_SIZE)
                        ELSE set_bit(@, h % USIZE_BIT_SIZE)]

\* move_head with the displacement subtracted instead of added
move_head_Mirrored(h, direction) == (h - direction) % UsizeModulus

\* (self.head as isize + direction as isize) as usize
move_head(h, direction) == (h + direction) % UsizeModulus

\* symbol stored in cell i of tape t (i in bounds)
CellOf(t, i) == get_bit(t[i \div USIZE_BIT_SIZE], i % USIZE_BIT_SIZE)

---------------------------------------------------------------------------
(* Return values of the calls, as the caller sees them *)

NoCall == [op |-> "new", kind |-> "Unit", val |-> "", id |-> 0]

RetUnit(op) == [op |-> op, kind |-> "Unit", val |-> "", id |-> 0]

RetOk(op) == [op |-> op, kind |-> "Ok", val |-> "", id |-> 0]

RetErr(op, msg, id) == [op |-> op, kind |-> "Err", val |-> msg, id |-> id]

\* Ok(state) of run
RetState(state) == [op |-> "run", kind |-> "Ok", val |-> state.tag, id |-> state.id]

RetPanic(op) == [op |-> op, kind |-> "Panic", val |-> "", id |-> 0]

\* run has been entered and its loop has not returned yet
InLoop == [op |-> "run", kind |-> "Pending", val |-> "", id |-> 0]

ErrInitialNotSet == "ERROR: initial state is not set"

ErrNotDefined == "ERROR: state with id is not defined"

ErrNotExist == "ERROR: State with id does not exist"

ErrAlreadyBound == "ERROR: State with id is already bound to a transition rule as a from_state"

---------------------------------------------------------------------------
(* Program definition: states and transition table.  A rule's from_state   *)
(* (a ProgramState, whose only field is its id) is kept as the id.         *)

EmptyMap == [x \in {} |-> 0]

\* the loop of validate_transition_rules from rule k on; states_used maps a
\* state id to the symbols already seen for it in this batch
RECURSIVE ValidateFrom(_, _, _, _)
ValidateFrom(registered, transition_rules, k, states_used) ==
    IF k > Len(transition_rules) THEN RetOk("define_transition_table")
    ELSE LET t == transition_rules[k]
             used == IF t.from_state \in DOMAIN states_used
                     THEN states_used
                     ELSE (t.from_state :> <<>>) @@ states_used
             already_mapped_symbols == used[t.from_state]
         IN  IF t.from_state \notin registered
             THEN RetErr("define_transition_table", ErrNotExist, t.from_state)
             ELSE IF \E n \in 1..Len(already_mapped_symbols) :
                        already_mapped_symbols[n] = t.from_symbol
             THEN RetErr("define_transition_table", ErrAlreadyBound, t.from_state)
             ELSE ValidateFrom(registered, transition_rules, k + 1,
                     [used EXCEPT ![t.from_state] = Append(@, t.from_symbol)])

\* validate_transition_rules keyed by from_state alone: a second rule of a
\* state is rejected whatever its symbol
RECURSIVE ValidateFromByState(_, _, _, _)
ValidateFromByState(registered, transition_rules, k, states_used) ==
    IF k > Len(transition_rules) THEN RetOk("define_transition_table")
    ELSE LET t == transition_rules[k]
         IN  IF t.from_state \notin registered
             THEN RetErr("define_transition_table", ErrNotExist, t.from_state)
             ELSE IF t.from_state \in states_used
             THEN RetErr("define_transition_table", ErrAlreadyBound, t.from_state)
             ELSE ValidateFromByState(registered, transition_rules, k + 1,
                                      states_used \cup {t.from_state})

validate_transition_rules_ByState(registered, transition_rules) ==
    ValidateFromByState(registered, transition_rules, 1, {})

validate_transition_rules(registered, transition_rules) ==
    ValidateFrom(registered, transition_rules, 1, EmptyMap)

\* the installing loop of define_transition_table from rule k on
RECURSIVE InstallFrom(_, _, _)
InstallFrom(table, transition_rules, k) ==
    IF k > Len(transition_rules) THEN table
    ELSE LET t == transition_rules[k]
             withKey == IF t.from_state \in DOMAIN table
                        THEN table
                        ELSE (t.from_state :> EmptyMap) @@ table
         IN  InstallFrom([withKey EXCEPT ![t.from_state] = (t.from_symbol :> t) @@ @],
                         transition_rules, k + 1)

\* self.transition_table.get(&state_id).unwrap() panics
RuleLookupFaults(table, state_id) == state_id \notin DOMAIN table

\* Option<&TransitionRule>, for a state_id that has an entry
get_transition_rule(table, state_id, symbol) ==
    IF symbol \in DOMAIN table[state_id]
    THEN [tag |-> "Some", rule |-> table[state_id][symbol]]
    ELSE [tag |-> "None", rule |-> EmptyMap]

---------------------------------------------------------------------------
(* write_to_tape: the symbols are laid out chunk by chunk; chunk i goes to *)
(* word (head + i * W) / W and symbol j of a chunk to bit head % W + j of  *)
(* that word.  WriteFrom applies the symbols from flat index k on and      *)
(* reports the tape reached and whether a panic stopped the loop.          *)

RECURSIVE WriteFrom(_, _, _, _, _)
WriteFrom(t, h, cells, k, checks) ==
    IF k >= Len(cells) THEN [tape |-> t, panicked |-> FALSE]
    ELSE LET i == k \div USIZE_BIT_SIZE
             j == k % USIZE_BIT_SIZE
             current_head == (h + i * USIZE_BIT_SIZE) % UsizeModulus
             w == current_head \div USIZE_BIT_SIZE
             bit_idx == (h % USIZE_BIT_SIZE) + j
         IN  IF checks /\ h + i * USIZE_BIT_SIZE >= UsizeModulus
             THEN [tape |-> t, panicked |-> TRUE]
             ELSE IF w \notin DOMAIN t
             THEN [tape |-> t, panicked |-> TRUE]
             ELSE IF checks /\ BitIndexOverflows(bit_idx)
             THEN [tape |-> t, panicked |-> TRUE]
             ELSE WriteFrom([t EXCEPT ![w] = IF cells[k + 1] = Zero
                                             THEN unset_bit(@, bit_idx)
                                             ELSE set_bit(@, bit_idx)],
                            h, cells, k + 1, checks)

\* assert!(cells.len() > self.tape.len(), ...)
WriteAssertion(t, cells) == Len(cells) > Cardinality(DOMAIN t)

write_to_tape(t, h, cells, checks) ==
    IF ~ WriteAssertion(t, cells)
    THEN [tape |-> t, panicked |-> TRUE]
    ELSE WriteFrom(t, h, cells, 0, checks)

---------------------------------------------------------------------------
(* The program and the input of main.rs *)

q1 == 1

q2 == 2

q3 == 3

q4 == 4

\* an id that no batch of states registers
q5 == q4 + 1

MainStates == <<q1, q2, q3, q4>>

MainRules ==
    << TransitionRule(q1, Zero, Zero, Stay, Termination),
       TransitionRule(q1, One, Zero, Right, ProgramState(q2)),
       TransitionRule(q2, Zero, One, Left, ProgramState(q3)),
       TransitionRule(q2, One, One, Right, ProgramState(q2)),
       TransitionRule(q3, Zero, Zero, Right, ProgramState(q4)),
       TransitionRule(q3, One, One, Left, ProgramState(q3)),
       TransitionRule(q4, Zero, Zero, Stay, Halt),
       TransitionRule(q4, One, Zero, Right, Termination) >>

MainInput == <<One, One, One, One, Zero, One, One, One>>

---------------------------------------------------------------------------
(* Inputs of the calls *)

StateBatches == { MainStates }

InitialIds == { q1, q5 }

\* a valid rule followed by a rule of an unregistered from_state
UnregisteredRules ==
    << TransitionRule(q1, Zero, One, Stay, Halt),
       TransitionRule(q5, Zero, Zero, Stay, Halt) >>

\* two rules of one (from_state, from_symbol) key
DuplicateRules ==
    << TransitionRule(q1, Zero, One, Stay, Halt),
       TransitionRule(q1, Zero, Zero, Right, Termination) >>

\* a rule that leads to a state never registered
DanglingRules == << TransitionRule(q1, Zero, One, Right, ProgramState(q5)) >>

\* walks right over zeros and terminates on the first One, stepping past it
SweepRules ==
    << TransitionRule(q1, Zero, Zero, Right, ProgramState(q1)),
       TransitionRule(q1, One, One, Right, Termination) >>

RuleBatches == { MainRules, <<>>, UnregisteredRules, DuplicateRules,
                 DanglingRules, SweepRules }

\* a whole word of symbols whose last is One
WordInput == [n \in 1..USIZE_BIT_SIZE |-> IF n = USIZE_BIT_SIZE THEN One ELSE Zero]

TapeInputs == { <<One>>, <<One, Zero>>, MainInput, WordInput,
                WordInput \o <<One>> }

---------------------------------------------------------------------------
(* TuringMachine::new *)

ZeroTape == [w \in 0..(DEFAULT_TAPE_SIZE - 1) |-> 0]

InitialHead == (DEFAULT_TAPE_SIZE \div 2) * USIZE_BIT_SIZE

Init ==
    /\ tape = ZeroTape
    /\ head = InitialHead
    /\ initial_state = None
    /\ states = {}
    /\ transition_table = EmptyMap
    /\ pc = "idle"
    /\ current_state = None
    /\ result = NoCall
    /\ writes = 0
    /\ runs = 0
    /\ overflow_checks \in BOOLEAN

---------------------------------------------------------------------------
(* The calls of the public interface.  A call is made while no other call  *)
(* is in progress (the machine is borrowed mutably) and no panic has       *)
(* ended the program.                                                      *)

IdsOf(program_states) == { program_states[n] : n \in 1..Len(program_states) }

define_states(program_states) ==
    /\ pc = "idle"
    /\ states' = states \cup IdsOf(program_states)
    /\ result' = RetUnit("define_states")
    /\ UNCHANGED <<tape, head, initial_state, transition_table, pc,
                   current_state, writes, runs, overflow_checks>>

\* set_initial_state that records the id without looking it up in states
set_initial_state_Unchecked(state_id) ==
    /\ pc = "idle"
    /\ initial_state' = Some(state_id)
    /\ result' = RetOk("set_initial_state")
    /\ UNCHANGED <<tape, head, states, transition_table, pc, current_state,
                   writes, runs, overflow_checks>>

\* set_initial_state with the test of contains_key inverted
set_initial_state_Inverted(state_id) ==
    /\ pc = "idle"
    /\ IF state_id \in states
       THEN /\ result' = RetErr("set_initial_state", ErrNotDefined, state_id)
            /\ UNCHANGED initial_state
       ELSE /\ initial_state' = Some(state_id)
            /\ result' = RetOk("set_initial_state")
    /\ UNCHANGED <<tape, head, states, transition_table, pc, current_state,
                   writes, runs, overflow_checks>>

set_initial_state(state_id) ==
    /\ pc = "idle"
    /\ IF state_id \notin states
       THEN /\ result' = RetErr("set_initial_state", ErrNotDefined, state_id)
            /\ UNCHANGED initial_state
       ELSE /\ initial_state' = Some(state_id)
            /\ result' = RetOk("set_initial_state")
    /\ UNCHANGED <<tape, head, states, transition_table, pc, current_state,
                   writes, runs, overflow_checks>>

\* define_transition_table that drops the outcome of the validation and
\* installs the batch whatever it is
define_transition_table_Unvalidated(transition_rules) ==
    /\ pc = "idle"
    /\ result' = RetOk("define_transition_table")
    /\ transition_table' = InstallFrom(transition_table, transition_rules, 1)
    /\ UNCHANGED <<tape, head, initial_state, states, pc, current_state,
                   writes, runs, overflow_checks>>

define_transition_table(transition_rules) ==
    /\ pc = "idle"
    /\ LET validated == validate_transition_rules(states, transition_rules)
       IN  /\ result' = validated
           /\ IF validated.kind = "Err"
              THEN UNCHANGED transition_table
              ELSE transition_table' = InstallFrom(transition_table, transition_rules, 1)
    /\ UNCHANGED <<tape, head, initial_state, states, pc, current_state,
                   writes, runs, overflow_checks>>

WriteToTapeCall(cells) ==
    /\ pc = "idle"
    /\ writes < MaxWrites
    /\ writes' = writes + 1
    /\ LET w == write_to_tape(tape, head, cells, overflow_checks)
       IN  /\ tape' = w.tape
           /\ IF w.panicked
              THEN pc' = "panicked" /\ result' = RetPanic("write_to_tape")
              ELSE pc' = pc /\ result' = RetUnit("write_to_tape")
    /\ UNCHANGED <<head, initial_state, states, transition_table,
                   current_state, runs, overflow_checks>>

\* a call of move_head by the user of the machine, who keeps the head
\* within MaxHeadTravel cells of where new() put it
MoveHeadCall(direction) ==
    /\ pc = "idle"
    /\ move_head(head, direction) - InitialHead \in (-MaxHeadTravel)..MaxHeadTravel
    /\ head' = move_head(head, direction)
    /\ result' = RetUnit("move_head")
    /\ UNCHANGED <<tape, initial_state, states, transition_table, pc,
                   current_state, writes, runs, overflow_checks>>

---------------------------------------------------------------------------
(* run: the entry, then one action per iteration of its loop *)

\* run that unwraps the initial state instead of returning the error
RunCall_Unwrap ==
    /\ pc = "idle"
    /\ runs < MaxRuns
    /\ runs' = runs + 1
    /\ IF initial_state = None \/ initial_state.id \notin states
       THEN /\ result' = RetPanic("run")
            /\ pc' = "panicked"
            /\ UNCHANGED current_state
       ELSE /\ current_state' = ProgramState(initial_state.id)
            /\ pc' = "running"
            /\ result' = InLoop
    /\ UNCHANGED <<tape, head, initial_state, states, transition_table,
                   writes, overflow_checks>>

RunCall ==
    /\ pc = "idle"
    /\ runs < MaxRuns
    /\ runs' = runs + 1
    /\ IF initial_state = None
       THEN /\ result' = RetErr("run", ErrInitialNotSet, 0)
            /\ UNCHANGED <<pc, current_state>>
       ELSE IF initial_state.id \notin states
       THEN /\ result' = RetPanic("run")
            /\ pc' = "panicked"
            /\ UNCHANGED current_state
       ELSE /\ current_state' = ProgramState(initial_state.id)
            /\ pc' = "running"
            /\ result' = InLoop
    /\ UNCHANGED <<tape, head, initial_state, states, transition_table,
                   writes, overflow_checks>>

\* print_tape / get_head_value index the tape out of bounds, or
\* get_transition_rule unwraps a missing entry
StepFaults == HeadFaults \/ RuleLookupFaults(transition_table, current_state.id)

RunStepPanic ==
    /\ pc = "running"
    /\ StepFaults
    /\ pc' = "panicked"
    /\ result' = RetPanic("run")
    /\ UNCHANGED <<tape, head, initial_state, states, transition_table,
                   current_state, writes, runs, overflow_checks>>

\* the halting step with the head moved Right before run() returns
RunStepHalt_Moves ==
    /\ pc = "running"
    /\ ~ StepFaults
    /\ get_transition_rule(transition_table, current_state.id, get_head_value).tag = "None"
    /\ pc' = "idle"
    /\ result' = RetState(Halt)
    /\ current_state' = None
    /\ head' = move_head(head, Right)
    /\ UNCHANGED <<tape, initial_state, states, transition_table,
                   writes, runs, overflow_checks>>

RunStepHalt ==
    /\ pc = "running"
    /\ ~ StepFaults
    /\ get_transition_rule(transition_table, current_state.id, get_head_value).tag = "None"
    /\ pc' = "idle"
    /\ result' = RetState(Halt)
    /\ current_state' = None
    /\ UNCHANGED <<tape, head, initial_state, states, transition_table,
                   writes, runs, overflow_checks>>

\* a rule applies; when its to_state is not a program state the next
\* iteration returns it, which is folded into this step
RunStepApply ==
    /\ pc = "running"
    /\ ~ StepFaults
    /\ get_transition_rule(transition_table, current_state.id, get_head_value).tag = "Some"
    /\ LET rule == get_transition_rule(transition_table, current_state.id,
                                       get_head_value).rule
       IN  /\ tape' = set_head_value(tape, head, rule.new_symbol)
           /\ head' = move_head(head, rule.head_move_dir)
           /\ IF rule.to_state.tag = "ProgramState"
              THEN /\ current_state' = rule.to_state
                   /\ UNCHANGED <<pc, result>>
              ELSE /\ current_state' = None
                   /\ pc' = "idle"
                   /\ result' = RetState(rule.to_state)
    /\ UNCHANGED <<initial_state, states, transition_table, writes, runs,
                   overflow_checks>>

---------------------------------------------------------------------------
DefineStates == \E program_states \in StateBatches : define_states(program_states)

SetInitialState == \E state_id \in InitialIds : set_initial_state(state_id)

DefineTransitionTable ==
    \E transition_rules \in RuleBatches : define_transition_table(transition_rules)

WriteToTape == \E cells \in TapeInputs : WriteToTapeCall(cells)

MoveHead == \E direction \in Direction : MoveHeadCall(direction)

Next ==
    \/ DefineStates
    \/ SetInitialState
    \/ DefineTransitionTable
    \/ WriteToTape
    \/ MoveHead
    \/ RunCall
    \/ RunStepPanic
    \/ RunStepHalt
    \/ RunStepApply

Spec == Init /\ [][Next]_vars

\* the program-authoring calls alone: the states, the initial state and the
\* transition table of a machine that is never run
NextAuthoring ==
    \/ DefineStates
    \/ SetInitialState
    \/ DefineTransitionTable

SpecAuthoring == Init /\ [][NextAuthoring]_vars

---------------------------------------------------------------------------
(* The machine with its program set up and the head anywhere on the tape:  *)
(* the states reached by define_states, set_initial_state,                 *)
(* define_transition_table, at most one write_to_tape at the initial head  *)
(* position and then calls of move_head.  From there the user sets single  *)
(* cells with set_head_value and runs the machine.                         *)

\* rules that move Left or Stay and end in Halt or Termination
EdgeRules ==
    << TransitionRule(q1, Zero, One, Left, ProgramState(q2)),
       TransitionRule(q1, One, Zero, Stay, Halt),
       TransitionRule(q2, Zero, Zero, Left, Termination),
       TransitionRule(q2, One, One, Stay, ProgramState(q1)) >>

SteppedBatches == { MainRules, DanglingRules, SweepRules, EdgeRules }

SeededTapes ==
    { ZeroTape,
      write_to_tape(ZeroTape, InitialHead, MainInput, TRUE).tape,
      write_to_tape(ZeroTape, InitialHead, WordInput, TRUE).tape }

InitAnywhere ==
    /\ overflow_checks \in BOOLEAN
    /\ tape \in SeededTapes
    /\ head \in 0..(tape_len - 1)
    /\ states = IdsOf(MainStates)
    /\ initial_state = Some(q1)
    /\ transition_table \in { InstallFrom(EmptyMap, transition_rules, 1) :
                                 transition_rules \in SteppedBatches }
    /\ pc = "idle"
    /\ current_state = None
    /\ result = RetUnit("move_head")
    /\ writes = IF tape = ZeroTape THEN 0 ELSE 1
    /\ runs = 0

\* a call of set_head_value by the user of the machine
SetHeadValueCall(value) ==
    /\ pc = "idle"
    /\ IF HeadFaults
       THEN /\ pc' = "panicked"
            /\ result' = RetPanic("set_head_value")
            /\ UNCHANGED tape
       ELSE /\ tape' = set_head_value(tape, head, value)
            /\ result' = RetUnit("set_head_value")
            /\ UNCHANGED pc
    /\ UNCHANGED <<head, initial_state, states, transition_table,
                   current_state, writes, runs, overflow_checks>>

SetHeadValue == \E value \in Symbol : SetHeadValueCall(value)

NextAnywhere ==
    \/ SetHeadValue
    \/ RunCall
    \/ RunStepPanic
    \/ RunStepHalt
    \/ RunStepApply

SpecAnywhere == InitAnywhere /\ [][NextAnywhere]_vars

TypeOK ==
    /\ head \in 0..(UsizeModulus - 1)
    /\ pc \in {"idle", "running", "panicked"}

---------------------------------------------------------------------------
(* Vocabulary of the properties *)

InBounds(h) == h \in 0..(tape_len - 1)

\* tape t holds the symbols of cells from cell h on and Zero everywhere else
HoldsOnly(t, h, cells) ==
    \A i \in 0..(tape_len - 1) :
        CellOf(t, i) = IF i \in h..(h + Len(cells) - 1) THEN cells[i - h + 1] ELSE Zero

\* the table that binds exactly the keys of the rules, each to its rule
BindsExactly(table, transition_rules) ==
    /\ DOMAIN table = { transition_rules[n].from_state : n \in 1..Len(transition_rules) }
    /\ \A s \in DOMAIN table :
          DOMAIN table[s] = { transition_rules[n].from_symbol :
                                n \in { m \in 1..Len(transition_rules) :
                                          transition_rules[m].from_state = s } }
    /\ \A n \in 1..Len(transition_rules) :
          table[transition_rules[n].from_state][transition_rules[n].from_symbol]
              = transition_rules[n]

\* the machine as main.rs sets it up before it calls run
MainSetUp ==
    /\ states = IdsOf(MainStates)
    /\ initial_state = Some(q1)
    /\ BindsExactly(transition_table, MainRules)

\* the configurations the program of main.rs passes through on MainInput:
\* the state, the head relative to where the input starts, the cells
MainTrace ==
    << [state |-> q1, head |-> 0, cells |-> <<1, 1, 1, 1, 0, 1, 1, 1>>],
       [state |-> q2, head |-> 1, cells |-> <<0, 1, 1, 1, 0, 1, 1, 1>>],
       [state |-> q2, head |-> 2, cells |-> <<0, 1, 1, 1, 0, 1, 1, 1>>],
       [state |-> q2, head |-> 3, cells |-> <<0, 1, 1, 1, 0, 1, 1, 1>>],
       [state |-> q2, head |-> 4, cells |-> <<0, 1, 1, 1, 0, 1, 1, 1>>],
       [state |-> q3, head |-> 3, cells |-> <<0, 1, 1, 1, 1, 1, 1, 1>>],
       [state |-> q3, head |-> 2, cells |-> <<0, 1, 1, 1, 1, 1, 1, 1>>],
       [state |-> q3, head |-> 1, cells |-> <<0, 1, 1, 1, 1, 1, 1, 1>>],
       [state |-> q3, head |-> 0, cells |-> <<0, 1, 1, 1, 1, 1, 1, 1>>],
       [state |-> q4, head |-> 1, cells |-> <<0, 1, 1, 1, 1, 1, 1, 1>>] >>

MainAt(k) ==
    /\ pc = "running"
    /\ current_state = ProgramState(MainTrace[k].state)
    /\ head = InitialHead + MainTrace[k].head
    /\ MainSetUp
    /\ HoldsOnly(tape, InitialHead, MainTrace[k].cells)

MainStart ==
    /\ pc = "idle"
    /\ head = InitialHead
    /\ MainSetUp
    /\ HoldsOnly(tape, InitialHead, MainInput)

MainDone ==
    /\ pc = "idle"
    /\ result = RetState(Termination)
    /\ head = InitialHead + 2
    /\ MainSetUp
    /\ HoldsOnly(tape, InitialHead, <<0, 0, 1, 1, 1, 1, 1, 1>>)

\* C1: run() on the machine of main.rs (states q1..q4, initial state q1, the
\* eight rules, the tape seeded with 1,1,1,1,0,1,1,1 at the initial head
\* position h) enters the loop in q1, takes ten steps, none of which panics or
\* halts, and returns Termination with cells h..h+7 holding 0,0,1,1,1,1,1,1,
\* every other cell Zero and the head at h+2.
C1_MainTerminates ==
    [][ /\ (runs' # runs /\ MainStart) => MainAt(1)'
        /\ \A k \in 1..(Len(MainTrace) - 1) : MainAt(k) => MainAt(k + 1)'
        /\ MainAt(Len(MainTrace)) => MainDone' ]_vars

C1_Witness == MainDone /\ runs > 0

\* C2: with an empty transition table and the initial state set, the first
\* step of run() returns Halt, without a fault and without changing the tape
\* or the head.
C2_EmptyTableHalts ==
    [][ (pc = "running" /\ transition_table = EmptyMap)
          => /\ pc' = "idle"
             /\ result' = RetState(Halt)
             /\ tape' = tape
             /\ head' = head ]_vars

\* C3: when the loop of run() is in a program state that was never
\* registered, run() stops and returns that state, Ok(ProgramState(id)),
\* without a fault.
C3_InvalidStateReturned ==
    [][ (pc = "running" /\ current_state.id \notin states)
          => /\ pc' = "idle"
             /\ result' = RetState(current_state) ]_vars

\* C4: a call of run() while no initial state is set returns the error
\* "initial state is not set", takes no step, and leaves the tape, the head,
\* the states, the initial state and the transition table as they were.
C4_RunWithoutInitialState ==
    [][ (runs' # runs /\ initial_state = None)
          => /\ result' = RetErr("run", ErrInitialNotSet, 0)
             /\ pc' = "idle"
             /\ UNCHANGED <<tape, head, states, initial_state, transition_table>> ]_vars

C4_Witness ==
    /\ result = RetErr("run", ErrInitialNotSet, 0)
    /\ states # {}
    /\ transition_table # EmptyMap
    /\ tape # ZeroTape

\* C5: in every reachable state the head is a cell of the tape,
\* 0 <= head < tape_len().
C5_HeadInBounds == InBounds(head)

\* C6: run() never returns Ok(Termination) or Ok(Halt) with the head off the
\* tape: a step that moves the head past an end of the tape faults instead.
C6_NoReturnOffTape == (result.op = "run" /\ result.kind = "Ok") => InBounds(head)

\* a rule of the batch has an unregistered from_state, or two rules of the
\* batch have one (from_state, from_symbol) key
BatchInvalid(transition_rules) ==
    \/ \E n \in 1..Len(transition_rules) : transition_rules[n].from_state \notin states
    \/ \E m, n \in 1..Len(transition_rules) :
          /\ m # n
          /\ transition_rules[m].from_state = transition_rules[n].from_state
          /\ transition_rules[m].from_symbol = transition_rules[n].from_symbol

\* the lookup of (from_state, from_symbol) in table returns rule
Bound(table, rule) ==
    /\ ~ RuleLookupFaults(table, rule.from_state)
    /\ get_transition_rule(table, rule.from_state, rule.from_symbol)
          = [tag |-> "Some", rule |-> rule]

\* C7: define_transition_table is all-or-nothing: a batch with an
\* unregistered from_state or with two rules of one key returns an error and
\* leaves the transition table as it was; a valid batch returns Ok and every
\* rule of it is installed.
C7_AllOrNothing ==
    [][ result'.op = "define_transition_table" =>
        \A transition_rules \in RuleBatches :
          define_transition_table(transition_rules)
            => IF BatchInvalid(transition_rules)
               THEN /\ result'.kind = "Err"
                    /\ transition_table' = transition_table
               ELSE /\ result' = RetOk("define_transition_table")
                    /\ \A n \in 1..Len(transition_rules) :
                          Bound(transition_table', transition_rules[n]) ]_vars

C7_Witness ==
    /\ result = RetErr("define_transition_table", ErrAlreadyBound, q1)
    /\ BindsExactly(transition_table, MainRules)

\* C8: a (state, symbol) key is bound at most once across calls: a rule that
\* is installed stays the rule its key is looked up to, whatever calls follow.
C8_NeverRebound ==
    [][ \A s \in DOMAIN transition_table : \A y \in DOMAIN transition_table[s] :
          Bound(transition_table', transition_table[s][y]) ]_vars

\* the batch has a rule for (s, Zero) and a rule for (s, One)
HasBothSymbols(transition_rules, s) ==
    \A y \in Symbol : \E n \in 1..Len(transition_rules) :
        transition_rules[n].from_state = s /\ transition_rules[n].from_symbol = y

\* C9: uniqueness is keyed by (from_state, from_symbol): a batch of rules of
\* registered states without two rules of one key, which has a rule for
\* (s, Zero) and a rule for (s, One), is accepted, and the lookups of
\* (s, Zero) and (s, One) return the rules the batch has for them.
C9_KeyedByStateAndSymbol ==
    [][ result'.op = "define_transition_table" =>
        \A transition_rules \in RuleBatches :
          ( /\ \E s \in states : HasBothSymbols(transition_rules, s)
            /\ ~ BatchInvalid(transition_rules)
            /\ define_transition_table(transition_rules) )
            => /\ result'.kind = "Ok"
               /\ \A n \in 1..Len(transition_rules) :
                     HasBothSymbols(transition_rules, transition_rules[n].from_state)
                       => Bound(transition_table', transition_rules[n]) ]_vars

C9_Witness ==
    /\ result = RetOk("define_transition_table")
    /\ \E s \in states : \A y \in Symbol : \E n \in 1..Len(SweepRules) :
          /\ SweepRules[n].from_state = s
          /\ SweepRules[n].from_symbol = y
          /\ Bound(transition_table, SweepRules[n])

\* C10: write_to_tape of N symbols with the head on the tape and
\* N <= tape_len() - head succeeds, and afterwards cell head + k holds
\* symbols[k] for every k < N.
C10_WriteRoundTrip ==
    [][ \A cells \in TapeInputs :
          ( /\ writes' # writes
            /\ WriteToTapeCall(cells)
            /\ InBounds(head)
            /\ Len(cells) <= tape_len - head )
            => /\ pc' = "idle"
               /\ \A k \in 0..(Len(cells) - 1) : CellOf(tape', head + k) = cells[k + 1] ]_vars

\* cells [h, h + n) of the tape
Range(h, n) == h..(h + n - 1)

\* C11: write_to_tape of N symbols with the head on the tape and
\* N > tape_len() - head is rejected, the call does not return normally, and
\* it writes nothing: every cell of the tape is as it was before the call.
C11_OversizedWriteRejected ==
    [][ \A cells \in TapeInputs :
          ( /\ writes' # writes
            /\ WriteToTapeCall(cells)
            /\ InBounds(head)
            /\ Len(cells) > tape_len - head )
            => /\ result' # RetUnit("write_to_tape")
               /\ tape' = tape ]_vars

\* C12: set_initial_state(id) with an id that was never registered returns
\* the error "state is not defined" and leaves the recorded initial state as
\* it was, unset or the id recorded before; with a registered id it returns
\* Ok and records the id, and a run() called while a registered id is
\* recorded enters its loop in ProgramState(id).
C12_SetInitialState ==
    [][ /\ result'.op = "set_initial_state" =>
            \A state_id \in InitialIds :
              set_initial_state(state_id)
                => IF state_id \in states
                   THEN /\ result' = RetOk("set_initial_state")
                        /\ initial_state' = Some(state_id)
                   ELSE /\ result' = RetErr("set_initial_state", ErrNotDefined, state_id)
                        /\ initial_state' = initial_state
        /\ (runs' # runs /\ initial_state # None /\ initial_state.id \in states)
              => /\ pc' = "running"
                 /\ current_state' = ProgramState(initial_state.id) ]_vars

C12_Witness ==
    /\ result = RetErr("set_initial_state", ErrNotDefined, q5)
    /\ initial_state = Some(q1)

\* bit b of word x, b counted from the least-significant end
BitOf(x, b) == (x \div (2 ^ b)) % 2

\* C13: set_head_value(v) with the head on cell i of the tape makes a read
\* of cell i return v, leaves bit W - 1 - (i mod W) of word i div W, the bit
\* (i mod W) counted from the most-significant end, equal to v, and changes
\* no other bit of any word of the tape.
C13_SetGetMsbFirst ==
    [][ result'.op = "set_head_value" =>
        \A value \in Symbol :
          (SetHeadValueCall(value) /\ InBounds(head))
            => /\ get_head_value' = value
               /\ CellOf(tape', head) = value
               /\ BitOf(tape'[head \div USIZE_BIT_SIZE],
                        USIZE_BIT_SIZE - 1 - (head % USIZE_BIT_SIZE)) = value
               /\ \A w \in DOMAIN tape : \A b \in 0..(USIZE_BIT_SIZE - 1) :
                     ( w # head \div USIZE_BIT_SIZE
                       \/ b # USIZE_BIT_SIZE - 1 - (head % USIZE_BIT_SIZE) )
                       => BitOf(tape'[w], b) = BitOf(tape[w], b)
               /\ DOMAIN tape' = DOMAIN tape ]_vars

\* the One that a write put in the last cell of the tape was cleared
C13_Witness ==
    /\ result = RetUnit("set_head_value")
    /\ runs = 0
    /\ head = tape_len - 1
    /\ tape = ZeroTape
    /\ writes = 1

\* C14: every cell of a new machine reads Zero, and a cell that reads Zero
\* still reads Zero after every step that does not target it: a
\* write_to_tape of N symbols targets the cells [head, head + N), a step of
\* run() targets the cell under the head, and no other call targets a cell.
C14_UnwrittenCellsZero ==
    /\ \A i \in 0..(tape_len - 1) : CellOf(tape, i) = Zero
    /\ [][ \A i \in 0..(tape_len - 1) :
            CellOf(tape, i) = Zero =>
              \/ CellOf(tape', i) = Zero
              \/ pc = "running" /\ i = head
              \/ /\ writes' # writes
                 /\ \A cells \in TapeInputs :
                       WriteToTapeCall(cells) => i \in Range(head, Len(cells)) ]_vars

\* run() is in its loop in a registered state that has a rule for the symbol
\* under the head
RuleApplies ==
    /\ pc = "running"
    /\ InBounds(head)
    /\ current_state.id \in DOMAIN transition_table
    /\ CellOf(tape, head) \in DOMAIN transition_table[current_state.id]

\* the step writes new_symbol into the cell under the head and into no other
\* cell, and the status becomes to_state: the loop goes on in a program
\* state, run() returns Termination or Halt
WritesAndEnters(rule) ==
    /\ CellOf(tape', head) = rule.new_symbol
    /\ \A i \in 0..(tape_len - 1) : i # head => CellOf(tape', i) = CellOf(tape, i)
    /\ IF rule.to_state.tag = "ProgramState"
       THEN pc' = "running" /\ current_state' = rule.to_state
       ELSE pc' = "idle" /\ result' = RetState(rule.to_state)

\* C16: when a rule exists for the current state and the symbol under the
\* head, the step writes its new_symbol into the cell the head is on, changes
\* no other cell, moves the head by the displacement of the rule (Left -1,
\* Right +1, Stay 0) and sets the status to its to_state; a rule to
\* Termination or Halt has its write and its move applied before run()
\* returns.
C16_StepAppliesRule ==
    [][ RuleApplies =>
          LET rule == transition_table[current_state.id][CellOf(tape, head)]
          IN  /\ WritesAndEnters(rule)
              /\ head' = head + rule.head_move_dir ]_vars

\* C17: when run() is in its loop in a state that has a rule, and has none
\* for the symbol under the head, the step returns Halt and leaves the tape
\* and the head as they were.
C17_ImplicitHaltFrame ==
    [][ ( /\ pc = "running"
          /\ InBounds(head)
          /\ current_state.id \in DOMAIN transition_table
          /\ DOMAIN transition_table[current_state.id] # {}
          /\ CellOf(tape, head) \notin DOMAIN transition_table[current_state.id] )
          => /\ pc' = "idle"
             /\ result' = RetState(Halt)
             /\ tape' = tape
             /\ head' = head ]_vars

\* run() halted on a One under the head, for which the table has no rule
C17_Witness ==
    /\ result = RetState(Halt)
    /\ BindsExactly(transition_table, DanglingRules)
    /\ InBounds(head)
    /\ CellOf(tape, head) = One

\* C18: a run() called after the run of main.rs returned starts in q1 with
\* the tape and the head that run started from, the input 1,1,1,1,0,1,1,1 at
\* h and the head at h, not with the tape and the head it left behind.
C18_ResetPerRun ==
    [][ (runs' # runs /\ MainDone) => MainAt(1)' ]_vars

\* the initial state, when set, is a registered state
InitialStateRegistered == initial_state # None => initial_state.id \in states

\* C19: in every reachable state the initial state, when it is set, is a
\* registered state, so a run() called while it is set finds it in states:
\* the call does not panic and enters the loop in ProgramState(initial id).
C19_InitialStateLookup ==
    /\ InitialStateRegistered
    /\ [][ /\ InitialStateRegistered'
           /\ (runs' # runs /\ initial_state # None)
                 => /\ pc' = "running"
                    /\ result' = InLoop
                    /\ current_state' = ProgramState(initial_state.id) ]_vars

\* run() was called with the initial state set and entered its loop in it
C19_Witness ==
    /\ pc = "running"
    /\ result = InLoop
    /\ initial_state = Some(q1)
    /\ current_state = ProgramState(q1)

\* C20: a call of write_to_tape with N symbols, whether it returns or
\* panics, leaves the head, the states, the initial state and the transition
\* table as they were and changes no cell outside [head, head + N).
C20_WriteFrame ==
    [][ writes' # writes =>
        \A cells \in TapeInputs :
          WriteToTapeCall(cells)
            => /\ UNCHANGED <<head, states, initial_state, transition_table>>
               /\ \A i \in 0..(tape_len - 1) :
                     i \notin Range(head, Len(cells))
                       => CellOf(tape', i) = CellOf(tape, i) ]_vars

=============================================================================
